---- MODULE Spec2Model ----
(***************************************************************************)
(* A model of the scraper orchestration core of Axlrate_backend:           *)
(*   scrapers/common/rate_limiter.py    RateLimiter (wait, decorator)      *)
(*   scrapers/common/selenium_utils.py  bounded waits and safe lookups     *)
(*   scrapers/common/data_formatter.py  format_scraped_data, normalize_price*)
(*   scrapers/<ota>/scraper.py          the four placeholder adapters      *)
(* Time is counted in integer ticks.  Strings that the code inspects       *)
(* character by character are sequences of one-character strings.          *)
(***************************************************************************)
EXTENDS Integers, Sequences, FiniteSets, TLC

None == "None"

(***************************************************************************)
(* Bounds of the model.                                                    *)
(***************************************************************************)
MaxDelay == 2
MaxStartClock == 1
MaxClock == 6
MaxCalls == 3
MaxConcCalls == 2

Threads == {1, 2}
MainThread == CHOOSE t \in Threads : \A u \in Threads : t <= u
Limiters == {1, 2}
ArgValues == {"a1", "a2"}
OpOutcomes == {"r1", "r2", "raise"}

VARIABLES
  \* ---- RateLimiter instances (rate_limiter.py) ----
  min_delay,          \* [Limiters -> Nat]   self.min_delay
  last_request_time,  \* [Limiters -> Nat]   self.last_request_time
  clock,              \* the reading time.time() gives now
  \* ---- one frame per calling thread ----
  pc,                 \* position of the thread in wrapper()/wait()
  via,                \* "wait": direct call of wait(); "gate": call of the wrapper
  lim,                \* the limiter instance the call goes through
  current_time,       \* local of wait()
  time_since_last,    \* local of wait()
  wake_at,            \* the clock value at which time.sleep(sleep_time) is over
  stamp_time,         \* what time.time() returned in line 27, until it is stored
  args,               \* the arguments the caller passed to the wrapper
  op_calls,           \* how often the wrapped operation was invoked in this call
  op_args,            \* the arguments the wrapped operation received
  op_out,             \* what the wrapped operation returned ("raise": it raised)
  ret,                \* what the caller got back
  wait_returned,      \* wait() has returned in this call
  \* ---- history (observation only) ----
  starts,             \* [Limiters -> Seq(Nat)] the stamps, in the order they were written
  ncalls,             \* calls issued so far
  op_began,           \* [Threads -> clock at which func was entered]
  last_op,            \* [Threads -> the caller's previous call, if it was a gated
                      \*  one: its limiter, whether it returned or raised, and
                      \*  whether the operation ran for at least min_delay]
  \* ---- one call of a selenium_utils function ----
  sel_fn,             \* the function called
  sel_pc,             \* position in it
  sel_timeout,        \* its timeout argument
  end_time,           \* WebDriverWait.until: time.monotonic() + timeout
  mono,               \* time.monotonic(), counted from the call
  appears_at,         \* session: when the locator starts to match (Never: never)
  clickable_after,    \* session: ticks from present to visible and enabled
  dies_at,            \* session: when the browser session terminates
  nmatch,             \* session: how many elements match once present
  sel_result,         \* what the function returned
  sel_raised,         \* the exception that reached the caller (None: none)
  lookups,            \* driver.find_element(s) calls made
  sleeps,             \* time.sleep(poll) calls made
  \* ---- one call of normalize_price (data_formatter.py) ----
  price_str,          \* the argument, a sequence of characters
  price_pc,
  price_result,       \* the float returned, or None
  \* ---- calls of format_scraped_data (data_formatter.py) ----
  n_pc,
  ota_name,           \* the arguments
  hotel_name,
  check_in,
  check_out,
  rates_arg,          \* the list object passed as rates (owned by the adapter)
  raw_arg,            \* the dict object passed as raw_data, or None
  heap,               \* the contents of the adapter's list and dict objects
  rates_in,           \* the contents of the rates list when the call was made
  records,            \* the dictionaries returned so far, in call order
  returned,           \* for each of them, the contents of heap when it was returned
  wall,               \* the reading datetime.now() gives
  \* ---- one call of <Ota>Scraper.scrape_rates ----
  variant,            \* the adapter class
  q_hotel,            \* the query
  q_check_in,
  q_check_out,
  q_adults,
  s_pc,
  s_outcome           \* the record returned or the exception raised

limVars == <<min_delay, last_request_time, clock, pc, via, lim, current_time,
             time_since_last, wake_at, stamp_time, args, op_calls, op_args, op_out, ret,
             wait_returned, starts, ncalls, op_began, last_op>>

selVars == <<sel_fn, sel_pc, sel_timeout, end_time, mono, appears_at,
             clickable_after, dies_at, nmatch, sel_result, sel_raised, lookups,
             sleeps>>

priceVars == <<price_str, price_pc, price_result>>

normVars == <<n_pc, ota_name, hotel_name, check_in, check_out, rates_arg, raw_arg,
              heap, rates_in, records, returned, wall>>

scrVars == <<variant, q_hotel, q_check_in, q_check_out, q_adults, s_pc, s_outcome>>

vars == <<limVars, selVars, priceVars, normVars, scrVars>>

notLimVars == <<selVars, priceVars, normVars, scrVars>>
notSelVars == <<limVars, priceVars, normVars, scrVars>>
notPriceVars == <<limVars, selVars, normVars, scrVars>>
notNormVars == <<limVars, selVars, priceVars, scrVars>>
notScrVars == <<limVars, selVars, priceVars, normVars>>

(***************************************************************************)
(* RateLimiter.__init__: last_request_time = 0.                            *)
(***************************************************************************)
InitialLastRequestTime == 0

\* the caller's previous call was not a gated one
NoOp == [lim |-> 0, out |-> None, ran |-> FALSE]

InitLimiter ==
  /\ min_delay \in [Limiters -> 0..MaxDelay]
  /\ last_request_time = [l \in Limiters |-> InitialLastRequestTime]
  /\ clock \in 0..MaxStartClock
  /\ pc = [t \in Threads |-> "idle"]
  /\ via = [t \in Threads |-> "wait"]
  /\ lim = [t \in Threads |-> 1]
  /\ current_time = [t \in Threads |-> 0]
  /\ time_since_last = [t \in Threads |-> 0]
  /\ wake_at = [t \in Threads |-> 0]
  /\ stamp_time = [t \in Threads |-> 0]
  /\ args = [t \in Threads |-> None]
  /\ op_calls = [t \in Threads |-> 0]
  /\ op_args = [t \in Threads |-> None]
  /\ op_out = [t \in Threads |-> None]
  /\ ret = [t \in Threads |-> None]
  /\ wait_returned = [t \in Threads |-> FALSE]
  /\ starts = [l \in Limiters |-> <<>>]
  /\ ncalls = 0
  /\ op_began = [t \in Threads |-> 0]
  /\ last_op = [t \in Threads |-> NoOp]

\* A limiter nobody calls.
LimiterIdle == InitLimiter /\ clock = 0 /\ \A l \in Limiters : min_delay[l] = 0

(***************************************************************************)
(* The clock: time.time() never decreases; it may advance between any two  *)
(* statements.  Runs are cut at MaxClock, but never while a thread is      *)
(* still inside time.sleep: time passes for a sleeper.                     *)
(***************************************************************************)
ClockMayAdvance ==
  \/ clock < MaxClock
  \/ \E t \in Threads : pc[t] = "sleeping" /\ clock < wake_at[t]

Tick ==
  /\ ClockMayAdvance
  /\ clock' = clock + 1
  /\ UNCHANGED <<min_delay, last_request_time, pc, via, lim, current_time,
                 time_since_last, wake_at, stamp_time, args, op_calls, op_args, op_out, ret,
                 wait_returned, starts, ncalls, op_began, last_op>>
  /\ UNCHANGED notLimVars

(***************************************************************************)
(* A caller on thread t invokes limiter.wait() (how = "wait") or the       *)
(* wrapper returned by limiter(func) (how = "gate") with argument a.  The   *)
(* run issues at most budget calls.                                        *)
(***************************************************************************)
Call(t, l, how, a, budget) ==
  /\ pc[t] = "idle"
  /\ ncalls < budget
  /\ ncalls' = ncalls + 1
  /\ pc' = [pc EXCEPT ![t] = "read_clock"]
  /\ via' = [via EXCEPT ![t] = how]
  /\ lim' = [lim EXCEPT ![t] = l]
  /\ args' = [args EXCEPT ![t] = a]
  /\ UNCHANGED <<min_delay, last_request_time, clock, current_time,
                 time_since_last, wake_at, stamp_time, op_calls, op_args, op_out, ret,
                 wait_returned, starts, op_began, last_op>>
  /\ UNCHANGED notLimVars

\* wait(), line 20: current_time = time.time()
ReadClock(t) ==
  /\ pc[t] = "read_clock"
  /\ current_time' = [current_time EXCEPT ![t] = clock]
  /\ pc' = [pc EXCEPT ![t] = "read_last"]
  /\ UNCHANGED <<min_delay, last_request_time, clock, via, lim, time_since_last,
                 wake_at, stamp_time, args, op_calls, op_args, op_out, ret, wait_returned,
                 starts, ncalls, op_began, last_op>>
  /\ UNCHANGED notLimVars

\* wait(), line 21: time_since_last = current_time - self.last_request_time
ReadLast(t) ==
  /\ pc[t] = "read_last"
  /\ time_since_last' = [time_since_last EXCEPT
                           ![t] = current_time[t] - last_request_time[lim[t]]]
  /\ pc' = [pc EXCEPT ![t] = "check"]
  /\ UNCHANGED <<min_delay, last_request_time, clock, via, lim, current_time,
                 wake_at, stamp_time, args, op_calls, op_args, op_out, ret, wait_returned,
                 starts, ncalls, op_began, last_op>>
  /\ UNCHANGED notLimVars

\* A limiter that sleeps before every request, due or not.
MustSleepAlways(since, d) == TRUE

\* wait(), line 23: the test that decides whether to sleep
MustSleep(since, d) == since < d

\* wait(), line 24: sleep_time = self.min_delay - time_since_last
SleepTime(since, d) == d - since

\* wait(), lines 23-25: time.sleep(sleep_time) suspends the thread until at
\* least sleep_time has passed since the call; time.sleep raises ValueError
\* for a negative length, and nothing in wait() or the wrapper catches it.
Check(t) ==
  /\ pc[t] = "check"
  /\ IF MustSleep(time_since_last[t], min_delay[lim[t]])
       THEN IF SleepTime(time_since_last[t], min_delay[lim[t]]) < 0
              THEN /\ wake_at' = wake_at
                   /\ ret' = [ret EXCEPT ![t] = "ValueError"]
                   /\ pc' = [pc EXCEPT ![t] = "done"]
              ELSE /\ wake_at' = [wake_at EXCEPT
                         ![t] = clock + SleepTime(time_since_last[t],
                                                  min_delay[lim[t]])]
                   /\ ret' = ret
                   /\ pc' = [pc EXCEPT ![t] = "sleeping"]
       ELSE /\ wake_at' = wake_at
            /\ ret' = ret
            /\ pc' = [pc EXCEPT ![t] = "stamp"]
  /\ UNCHANGED <<min_delay, last_request_time, clock, via, lim, current_time,
                 time_since_last, args, op_calls, op_args, op_out,
                 wait_returned, starts, ncalls, op_began, last_op, stamp_time>>
  /\ UNCHANGED notLimVars

\* time.sleep returns: not before the requested time has passed.
Wake(t) ==
  /\ pc[t] = "sleeping"
  /\ clock >= wake_at[t]
  /\ pc' = [pc EXCEPT ![t] = "stamp"]
  /\ UNCHANGED <<min_delay, last_request_time, clock, via, lim, current_time,
                 time_since_last, wake_at, stamp_time, args, op_calls, op_args, op_out, ret,
                 wait_returned, starts, ncalls, op_began, last_op>>
  /\ UNCHANGED notLimVars

\* A stamp taken from the clock reading made at entry instead of a fresh one.
StampValueAtEntry(t) == current_time[t]

\* wait(), line 27: the value written is a fresh reading, time.time()
StampValue(t) == clock

\* The wrapper forgets to pass the operation's result on.
WrapperResultDropped(out) == None

\* wrapper(), line 34: return func(*args, **kwargs)
WrapperResult(out) == out

\* wait(), line 27, right-hand side: time.time() is called and returns; the
\* value is not stored yet, and other threads may run before it is.
StampRead(t) ==
  /\ pc[t] = "stamp"
  /\ stamp_time' = [stamp_time EXCEPT ![t] = StampValue(t)]
  /\ pc' = [pc EXCEPT ![t] = "store"]
  /\ UNCHANGED <<min_delay, last_request_time, clock, via, lim, current_time,
                 time_since_last, wake_at, args, op_calls, op_args, op_out, ret,
                 wait_returned, starts, ncalls, op_began, last_op>>
  /\ UNCHANGED notLimVars

\* last_request_time kept on the class: one slot shared by all instances.
StampAllInstances(t) ==
  /\ pc[t] = "store"
  /\ last_request_time' = [l \in Limiters |-> stamp_time[t]]
  /\ starts' = [starts EXCEPT ![lim[t]] = Append(@, stamp_time[t])]
  /\ wait_returned' = [wait_returned EXCEPT ![t] = TRUE]
  /\ pc' = [pc EXCEPT ![t] = IF via[t] = "gate" THEN "func" ELSE "done"]
  /\ current_time' = [current_time EXCEPT ![t] = 0]
  /\ time_since_last' = [time_since_last EXCEPT ![t] = 0]
  /\ wake_at' = [wake_at EXCEPT ![t] = 0]
  /\ stamp_time' = [stamp_time EXCEPT ![t] = 0]
  /\ UNCHANGED <<min_delay, clock, via, lim, args, op_calls, op_args, op_out,
                 ret, ncalls, op_began, last_op>>
  /\ UNCHANGED notLimVars

\* wait(), line 27, the store: self.last_request_time = <the value read>;
\* wait() returns.  A direct call is over; the wrapper goes on to line 34.
Stamp(t) ==
  /\ pc[t] = "store"
  /\ last_request_time' = [last_request_time EXCEPT ![lim[t]] = stamp_time[t]]
  /\ starts' = [starts EXCEPT ![lim[t]] = Append(@, stamp_time[t])]
  /\ wait_returned' = [wait_returned EXCEPT ![t] = TRUE]
  /\ pc' = [pc EXCEPT ![t] = IF via[t] = "gate" THEN "func" ELSE "done"]
  \* the locals of wait() end with its frame
  /\ current_time' = [current_time EXCEPT ![t] = 0]
  /\ time_since_last' = [time_since_last EXCEPT ![t] = 0]
  /\ wake_at' = [wake_at EXCEPT ![t] = 0]
  /\ stamp_time' = [stamp_time EXCEPT ![t] = 0]
  /\ UNCHANGED <<min_delay, clock, via, lim, args, op_calls, op_args, op_out,
                 ret, ncalls, op_began, last_op>>
  /\ UNCHANGED notLimVars

\* wrapper(), line 34: func(*args, **kwargs) is entered
OpStart(t) ==
  /\ pc[t] = "func"
  /\ op_calls' = [op_calls EXCEPT ![t] = @ + 1]
  /\ op_args' = [op_args EXCEPT ![t] = args[t]]
  /\ op_began' = [op_began EXCEPT ![t] = clock]
  /\ pc' = [pc EXCEPT ![t] = "in_op"]
  /\ UNCHANGED <<min_delay, last_request_time, clock, via, lim, current_time,
                 time_since_last, wake_at, stamp_time, args, op_out, ret, wait_returned,
                 starts, ncalls, last_op>>
  /\ UNCHANGED notLimVars

\* The stamp before the newest one, or the initial value if there is none.
PreviousStamp(l) ==
  IF Len(starts[l]) >= 2 THEN starts[l][Len(starts[l]) - 1]
  ELSE InitialLastRequestTime

\* A wrapper that gives the slot back when the operation fails.
RollBackOnRaise(t, out) ==
  IF out = "raise"
    THEN [last_request_time EXCEPT ![lim[t]] = PreviousStamp(lim[t])]
    ELSE last_request_time

\* A wrapper that measures the pacing from the end of the operation.
RestampAtEnd(t, out) == [last_request_time EXCEPT ![lim[t]] = clock]

\* wrapper(), lines 33-34: after self.wait() the wrapper only runs func; it
\* has no try/except/finally and writes nothing to the limiter.
LastRequestTimeAfterOp(t, out) == last_request_time

\* wrapper(), line 34: func returns out or raises; the wrapper hands that on.
OpEnd(t, out) ==
  /\ pc[t] = "in_op"
  /\ op_out' = [op_out EXCEPT ![t] = out]
  /\ ret' = [ret EXCEPT ![t] = WrapperResult(out)]
  /\ last_request_time' = LastRequestTimeAfterOp(t, out)
  /\ last_op' = [last_op EXCEPT
                   ![t] = [lim |-> lim[t],
                           out |-> IF out = "raise" THEN "raise" ELSE "return",
                           ran |-> clock - op_began[t] >= min_delay[lim[t]]]]
  /\ pc' = [pc EXCEPT ![t] = "done"]
  /\ UNCHANGED <<min_delay, clock, via, lim, current_time,
                 time_since_last, wake_at, stamp_time, args, op_calls, op_args,
                 wait_returned, starts, ncalls, op_began>>
  /\ UNCHANGED notLimVars

\* The caller has its answer; the frame of the call is gone.
Return(t) ==
  /\ pc[t] = "done"
  /\ pc' = [pc EXCEPT ![t] = "idle"]
  /\ via' = [via EXCEPT ![t] = "wait"]
  /\ lim' = [lim EXCEPT ![t] = 1]
  /\ args' = [args EXCEPT ![t] = None]
  /\ op_calls' = [op_calls EXCEPT ![t] = 0]
  /\ op_args' = [op_args EXCEPT ![t] = None]
  /\ op_out' = [op_out EXCEPT ![t] = None]
  /\ ret' = [ret EXCEPT ![t] = None]
  /\ wait_returned' = [wait_returned EXCEPT ![t] = FALSE]
  /\ op_began' = [op_began EXCEPT ![t] = 0]
  /\ last_op' = [last_op EXCEPT ![t] = IF via[t] = "gate" THEN @ ELSE NoOp]
  /\ UNCHANGED <<min_delay, last_request_time, clock, current_time,
                 time_since_last, wake_at, stamp_time, starts, ncalls>>
  /\ UNCHANGED notLimVars

ThreadStep(t) ==
  \/ \E l \in Limiters, how \in {"wait", "gate"}, a \in ArgValues :
        Call(t, l, how, a, MaxCalls)
  \/ ReadClock(t)
  \/ ReadLast(t)
  \/ Check(t)
  \/ Wake(t)
  \/ StampRead(t)
  \/ Stamp(t)
  \/ OpStart(t)
  \/ \E out \in OpOutcomes : OpEnd(t, out)
  \/ Return(t)

(***************************************************************************)
(* selenium_utils.py.  The browser session is the environment: the locator *)
(* matches nothing before appears_at, the matched element is visible and   *)
(* enabled clickable_after ticks later, and from dies_at on every driver    *)
(* call raises WebDriverException.  A driver call returns at once; time     *)
(* passes in time.sleep.                                                    *)
(***************************************************************************)
MaxTimeout == 2
MaxAppear == 2
MaxOversleep == 1
PollInterval == 1
Never == MaxTimeout + MaxAppear + MaxOversleep + PollInterval + 1

NoneVal == [kind |-> "None"]
Element(e) == [kind |-> "element", id |-> e]
ListOf(es) == [kind |-> "list", items |-> es]
Raise(e) == [kind |-> "raise", exc |-> e]
FalseVal == [kind |-> "False"]

WaitFns == {"wait_for_element", "wait_for_clickable"}
SafeFns == {"safe_find_element", "safe_find_elements"}

AllElements == <<"el1", "el2">>

SessionDead(now) == now >= dies_at
Present(now) == now >= appears_at
Clickable(now) == Present(now) /\ now >= appears_at + clickable_after

\* driver.find_element(by, value)
find_element(now) ==
  IF SessionDead(now) THEN Raise("WebDriverException")
  ELSE IF Present(now) THEN Element(AllElements[1])
  ELSE Raise("NoSuchElementException")

\* driver.find_elements(by, value): an empty list when nothing matches
find_elements(now) ==
  IF SessionDead(now) THEN Raise("WebDriverException")
  ELSE IF Present(now) THEN ListOf(SubSeq(AllElements, 1, nmatch))
  ELSE ListOf(<<>>)

\* EC.presence_of_element_located((by, value))(driver)
presence_of_element_located(now) == find_element(now)

\* EC.element_to_be_clickable((by, value))(driver): the element when it is
\* displayed and enabled, False when it is not
element_to_be_clickable(now) ==
  IF find_element(now).kind = "raise" THEN find_element(now)
  ELSE IF Clickable(now) THEN find_element(now)
  ELSE FalseVal

Condition(fn, now) ==
  IF fn = "wait_for_element" THEN presence_of_element_located(now)
  ELSE element_to_be_clickable(now)

\* WebDriverWait.until ignores NoSuchElementException raised by the condition
IgnoredByUntil(exc) == exc = "NoSuchElementException"

\* A wait function with no except clause.
WaitCatchesNothing(exc) == FALSE

\* A wait function with "except Exception".
WaitCatchesEverything(exc) == TRUE

\* wait_for_element / wait_for_clickable: except TimeoutException
WaitCatches(exc) == exc = "TimeoutException"

\* A safe lookup with no except clause.
SafeCatchesNothing(exc) == FALSE

\* safe_find_element / safe_find_elements: except NoSuchElementException
SafeCatches(exc) == exc = "NoSuchElementException"

SelIdle ==
  /\ sel_fn = None
  /\ sel_pc = "idle"
  /\ sel_timeout = 0
  /\ end_time = 0
  /\ mono = 0
  /\ appears_at = Never
  /\ clickable_after = 0
  /\ dies_at = Never
  /\ nmatch = 1
  /\ sel_result = NoneVal
  /\ sel_raised = None
  /\ lookups = 0
  /\ sleeps = 0

InitSel ==
  /\ sel_fn \in WaitFns \cup SafeFns
  /\ sel_pc = "called"
  /\ sel_timeout \in 0..MaxTimeout
  /\ end_time = 0
  /\ mono = 0
  /\ appears_at \in (0..MaxAppear) \cup {Never}
  /\ clickable_after \in {0, 1, Never}
  /\ dies_at \in {1, Never}
  /\ nmatch \in 1..2
  /\ sel_result = NoneVal
  /\ sel_raised = None
  /\ lookups = 0
  /\ sleeps = 0

\* The function ends: it returns val, or the exception exc leaves it.
SelFinish(val, exc) ==
  /\ sel_pc' = "done"
  /\ sel_result' = val
  /\ sel_raised' = exc

\* An exception raised inside the try block of a wait function.
WaitExcept(exc) ==
  IF WaitCatches(exc) THEN SelFinish(NoneVal, None) ELSE SelFinish(NoneVal, exc)

\* wait_for_*: WebDriverWait(driver, timeout).until(...) is entered
UntilEnter ==
  /\ sel_pc = "called"
  /\ sel_fn \in WaitFns
  /\ end_time' = mono + sel_timeout
  /\ sel_pc' = "poll"
  /\ UNCHANGED <<sel_fn, sel_timeout, mono, appears_at, clickable_after, dies_at,
                 nmatch, sel_result, sel_raised, lookups, sleeps>>
  /\ UNCHANGED notSelVars

\* until: value = method(driver); a truthy value is returned, an ignored
\* exception or a falsy value goes on to the sleep, any other exception leaves
\* until and reaches the except clause of the wait function.
Poll ==
  /\ sel_pc = "poll"
  /\ lookups' = lookups + 1
  /\ LET v == Condition(sel_fn, mono) IN
       IF v.kind = "element" THEN SelFinish(v, None)
       ELSE IF v.kind = "raise" /\ ~IgnoredByUntil(v.exc) THEN WaitExcept(v.exc)
       ELSE /\ sel_pc' = "sleep"
            /\ UNCHANGED <<sel_result, sel_raised>>
  /\ UNCHANGED <<sel_fn, sel_timeout, end_time, mono, appears_at,
                 clickable_after, dies_at, nmatch, sleeps>>
  /\ UNCHANGED notSelVars

\* until: time.sleep(self._poll) takes at least the poll interval
PollSleep(over) ==
  /\ sel_pc = "sleep"
  /\ mono' = mono + PollInterval + over
  /\ sleeps' = sleeps + 1
  /\ sel_pc' = "deadline"
  /\ UNCHANGED <<sel_fn, sel_timeout, end_time, appears_at, clickable_after,
                 dies_at, nmatch, sel_result, sel_raised, lookups>>
  /\ UNCHANGED notSelVars

\* until: if time.monotonic() > end_time: break; raise TimeoutException
Deadline ==
  /\ sel_pc = "deadline"
  /\ IF mono > end_time
       THEN WaitExcept("TimeoutException")
       ELSE /\ sel_pc' = "poll"
            /\ UNCHANGED <<sel_result, sel_raised>>
  /\ UNCHANGED <<sel_fn, sel_timeout, end_time, mono, appears_at,
                 clickable_after, dies_at, nmatch, lookups, sleeps>>
  /\ UNCHANGED notSelVars

\* safe_find_element / safe_find_elements: one driver call in a try block
SafeLookup ==
  /\ sel_pc = "called"
  /\ sel_fn \in SafeFns
  /\ lookups' = lookups + 1
  /\ LET v == IF sel_fn = "safe_find_element" THEN find_element(mono)
              ELSE find_elements(mono) IN
       IF v.kind # "raise" THEN SelFinish(v, None)
       ELSE IF SafeCatches(v.exc)
         THEN SelFinish(IF sel_fn = "safe_find_element" THEN NoneVal
                        ELSE ListOf(<<>>), None)
       ELSE SelFinish(NoneVal, v.exc)
  /\ UNCHANGED <<sel_fn, sel_timeout, end_time, mono, appears_at,
                 clickable_after, dies_at, nmatch, sleeps>>
  /\ UNCHANGED notSelVars

(***************************************************************************)
(* data_formatter.py: normalize_price.  A Python str is a sequence of       *)
(* characters.  A float is inf, nan, or a finite double, which is named by  *)
(* a decimal number it is the nearest double to,  mant * 10^exp  in lowest  *)
(* terms; a number beyond the range of double is rounded to inf and one     *)
(* below it to zero, as the conversion does.                                *)
(***************************************************************************)
MaxPriceLen == 3

\* the characters str.strip() removes (str.isspace()); a character outside
\* printable ASCII is written as its Python escape
Whitespace ==
  { "\t", "\n", "\\x0b", "\f", "\r", "\\x1c", "\\x1d", "\\x1e", "\\x1f", " ",
    "\\x85", "\\xa0", "\\u1680", "\\u2000", "\\u2001", "\\u2002", "\\u2003",
    "\\u2004", "\\u2005", "\\u2006", "\\u2007", "\\u2008", "\\u2009",
    "\\u200a", "\\u2028", "\\u2029", "\\u202f", "\\u205f", "\\u3000" }

\* the characters float() skips at both ends: the same, except the four
\* separators \x1c-\x1f
FloatWhitespace == Whitespace \ {"\\x1c", "\\x1d", "\\x1e", "\\x1f"}

\* the characters float() reads as the decimal digit v: every Unicode decimal
\* digit, not only ASCII
DecimalDigits(v) ==
  CASE v = 0 ->
        { "0", "\\u0660", "\\u06f0", "\\u07c0", "\\u0966", "\\u09e6",
          "\\u0a66", "\\u0ae6", "\\u0b66", "\\u0be6", "\\u0c66", "\\u0ce6",
          "\\u0d66", "\\u0de6", "\\u0e50", "\\u0ed0", "\\u0f20", "\\u1040",
          "\\u1090", "\\u17e0", "\\u1810", "\\u1946", "\\u19d0", "\\u1a80",
          "\\u1a90", "\\u1b50", "\\u1bb0", "\\u1c40", "\\u1c50", "\\ua620",
          "\\ua8d0", "\\ua900", "\\ua9d0", "\\ua9f0", "\\uaa50", "\\uabf0",
          "\\uff10", "\\U000104a0", "\\U00010d30", "\\U00011066",
          "\\U000110f0", "\\U00011136", "\\U000111d0", "\\U000112f0",
          "\\U00011450", "\\U000114d0", "\\U00011650", "\\U000116c0",
          "\\U00011730", "\\U000118e0", "\\U00011950", "\\U00011c50",
          "\\U00011d50", "\\U00011da0", "\\U00016a60", "\\U00016ac0",
          "\\U00016b50", "\\U0001d7ce", "\\U0001d7d8", "\\U0001d7e2",
          "\\U0001d7ec", "\\U0001d7f6", "\\U0001e140", "\\U0001e2f0",
          "\\U0001e950", "\\U0001fbf0" }
    [] v = 1 ->
        { "1", "\\u0661", "\\u06f1", "\\u07c1", "\\u0967", "\\u09e7",
          "\\u0a67", "\\u0ae7", "\\u0b67", "\\u0be7", "\\u0c67", "\\u0ce7",
          "\\u0d67", "\\u0de7", "\\u0e51", "\\u0ed1", "\\u0f21", "\\u1041",
          "\\u1091", "\\u17e1", "\\u1811", "\\u1947", "\\u19d1", "\\u1a81",
          "\\u1a91", "\\u1b51", "\\u1bb1", "\\u1c41", "\\u1c51", "\\ua621",
          "\\ua8d1", "\\ua901", "\\ua9d1", "\\ua9f1", "\\uaa51", "\\uabf1",
          "\\uff11", "\\U000104a1", "\\U00010d31", "\\U00011067",
          "\\U000110f1", "\\U00011137", "\\U000111d1", "\\U000112f1",
          "\\U00011451", "\\U000114d1", "\\U00011651", "\\U000116c1",
          "\\U00011731", "\\U000118e1", "\\U00011951", "\\U00011c51",
          "\\U00011d51", "\\U00011da1", "\\U00016a61", "\\U00016ac1",
          "\\U00016b51", "\\U0001d7cf", "\\U0001d7d9", "\\U0001d7e3",
          "\\U0001d7ed", "\\U0001d7f7", "\\U0001e141", "\\U0001e2f1",
          "\\U0001e951", "\\U0001fbf1" }
    [] v = 2 ->
        { "2", "\\u0662", "\\u06f2", "\\u07c2", "\\u0968", "\\u09e8",
          "\\u0a68", "\\u0ae8", "\\u0b68", "\\u0be8", "\\u0c68", "\\u0ce8",
          "\\u0d68", "\\u0de8", "\\u0e52", "\\u0ed2", "\\u0f22", "\\u1042",
          "\\u1092", "\\u17e2", "\\u1812", "\\u1948", "\\u19d2", "\\u1a82",
          "\\u1a92", "\\u1b52", "\\u1bb2", "\\u1c42", "\\u1c52", "\\ua622",
          "\\ua8d2", "\\ua902", "\\ua9d2", "\\ua9f2", "\\uaa52", "\\uabf2",
          "\\uff12", "\\U000104a2", "\\U00010d32", "\\U00011068",
          "\\U000110f2", "\\U00011138", "\\U000111d2", "\\U000112f2",
          "\\U00011452", "\\U000114d2", "\\U00011652", "\\U000116c2",
          "\\U00011732", "\\U000118e2", "\\U00011952", "\\U00011c52",
          "\\U00011d52", "\\U00011da2", "\\U00016a62", "\\U00016ac2",
          "\\U00016b52", "\\U0001d7d0", "\\U0001d7da", "\\U0001d7e4",
          "\\U0001d7ee", "\\U0001d7f8", "\\U0001e142", "\\U0001e2f2",
          "\\U0001e952", "\\U0001fbf2" }
    [] v = 3 ->
        { "3", "\\u0663", "\\u06f3", "\\u07c3", "\\u0969", "\\u09e9",
          "\\u0a69", "\\u0ae9", "\\u0b69", "\\u0be9", "\\u0c69", "\\u0ce9",
          "\\u0d69", "\\u0de9", "\\u0e53", "\\u0ed3", "\\u0f23", "\\u1043",
          "\\u1093", "\\u17e3", "\\u1813", "\\u1949", "\\u19d3", "\\u1a83",
          "\\u1a93", "\\u1b53", "\\u1bb3", "\\u1c43", "\\u1c53", "\\ua623",
          "\\ua8d3", "\\ua903", "\\ua9d3", "\\ua9f3", "\\uaa53", "\\uabf3",
          "\\uff13", "\\U000104a3", "\\U00010d33", "\\U00011069",
          "\\U000110f3", "\\U00011139", "\\U000111d3", "\\U000112f3",
          "\\U00011453", "\\U000114d3", "\\U00011653", "\\U000116c3",
          "\\U00011733", "\\U000118e3", "\\U00011953", "\\U00011c53",
          "\\U00011d53", "\\U00011da3", "\\U00016a63", "\\U00016ac3",
          "\\U00016b53", "\\U0001d7d1", "\\U0001d7db", "\\U0001d7e5",
          "\\U0001d7ef", "\\U0001d7f9", "\\U0001e143", "\\U0001e2f3",
          "\\U0001e953", "\\U0001fbf3" }
    [] v = 4 ->
        { "4", "\\u0664", "\\u06f4", "\\u07c4", "\\u096a", "\\u09ea",
          "\\u0a6a", "\\u0aea", "\\u0b6a", "\\u0bea", "\\u0c6a", "\\u0cea",
          "\\u0d6a", "\\u0dea", "\\u0e54", "\\u0ed4", "\\u0f24", "\\u1044",
          "\\u1094", "\\u17e4", "\\u1814", "\\u194a", "\\u19d4", "\\u1a84",
          "\\u1a94", "\\u1b54", "\\u1bb4", "\\u1c44", "\\u1c54", "\\ua624",
          "\\ua8d4", "\\ua904", "\\ua9d4", "\\ua9f4", "\\uaa54", "\\uabf4",
          "\\uff14", "\\U000104a4", "\\U00010d34", "\\U0001106a",
          "\\U000110f4", "\\U0001113a", "\\U000111d4", "\\U000112f4",
          "\\U00011454", "\\U000114d4", "\\U00011654", "\\U000116c4",
          "\\U00011734", "\\U000118e4", "\\U00011954", "\\U00011c54",
          "\\U00011d54", "\\U00011da4", "\\U00016a64", "\\U00016ac4",
          "\\U00016b54", "\\U0001d7d2", "\\U0001d7dc", "\\U0001d7e6",
          "\\U0001d7f0", "\\U0001d7fa", "\\U0001e144", "\\U0001e2f4",
          "\\U0001e954", "\\U0001fbf4" }
    [] v = 5 ->
        { "5", "\\u0665", "\\u06f5", "\\u07c5", "\\u096b", "\\u09eb",
          "\\u0a6b", "\\u0aeb", "\\u0b6b", "\\u0beb", "\\u0c6b", "\\u0ceb",
          "\\u0d6b", "\\u0deb", "\\u0e55", "\\u0ed5", "\\u0f25", "\\u1045",
          "\\u1095", "\\u17e5", "\\u1815", "\\u194b", "\\u19d5", "\\u1a85",
          "\\u1a95", "\\u1b55", "\\u1bb5", "\\u1c45", "\\u1c55", "\\ua625",
          "\\ua8d5", "\\ua905", "\\ua9d5", "\\ua9f5", "\\uaa55", "\\uabf5",
          "\\uff15", "\\U000104a5", "\\U00010d35", "\\U0001106b",
          "\\U000110f5", "\\U0001113b", "\\U000111d5", "\\U000112f5",
          "\\U00011455", "\\U000114d5", "\\U00011655", "\\U000116c5",
          "\\U00011735", "\\U000118e5", "\\U00011955", "\\U00011c55",
          "\\U00011d55", "\\U00011da5", "\\U00016a65", "\\U00016ac5",
          "\\U00016b55", "\\U0001d7d3", "\\U0001d7dd", "\\U0001d7e7",
          "\\U0001d7f1", "\\U0001d7fb", "\\U0001e145", "\\U0001e2f5",
          "\\U0001e955", "\\U0001fbf5" }
    [] v = 6 ->
        { "6", "\\u0666", "\\u06f6", "\\u07c6", "\\u096c", "\\u09ec",
          "\\u0a6c", "\\u0aec", "\\u0b6c", "\\u0bec", "\\u0c6c", "\\u0cec",
          "\\u0d6c", "\\u0dec", "\\u0e56", "\\u0ed6", "\\u0f26", "\\u1046",
          "\\u1096", "\\u17e6", "\\u1816", "\\u194c", "\\u19d6", "\\u1a86",
          "\\u1a96", "\\u1b56", "\\u1bb6", "\\u1c46", "\\u1c56", "\\ua626",
          "\\ua8d6", "\\ua906", "\\ua9d6", "\\ua9f6", "\\uaa56", "\\uabf6",
          "\\uff16", "\\U000104a6", "\\U00010d36", "\\U0001106c",
          "\\U000110f6", "\\U0001113c", "\\U000111d6", "\\U000112f6",
          "\\U00011456", "\\U000114d6", "\\U00011656", "\\U000116c6",
          "\\U00011736", "\\U000118e6", "\\U00011956", "\\U00011c56",
          "\\U00011d56", "\\U00011da6", "\\U00016a66", "\\U00016ac6",
          "\\U00016b56", "\\U0001d7d4", "\\U0001d7de", "\\U0001d7e8",
          "\\U0001d7f2", "\\U0001d7fc", "\\U0001e146", "\\U0001e2f6",
          "\\U0001e956", "\\U0001fbf6" }
    [] v = 7 ->
        { "7", "\\u0667", "\\u06f7", "\\u07c7", "\\u096d", "\\u09ed",
          "\\u0a6d", "\\u0aed", "\\u0b6d", "\\u0bed", "\\u0c6d", "\\u0ced",
          "\\u0d6d", "\\u0ded", "\\u0e57", "\\u0ed7", "\\u0f27", "\\u1047",
          "\\u1097", "\\u17e7", "\\u1817", "\\u194d", "\\u19d7", "\\u1a87",
          "\\u1a97", "\\u1b57", "\\u1bb7", "\\u1c47", "\\u1c57", "\\ua627",
          "\\ua8d7", "\\ua907", "\\ua9d7", "\\ua9f7", "\\uaa57", "\\uabf7",
          "\\uff17", "\\U000104a7", "\\U00010d37", "\\U0001106d",
          "\\U000110f7", "\\U0001113d", "\\U000111d7", "\\U000112f7",
          "\\U00011457", "\\U000114d7", "\\U00011657", "\\U000116c7",
          "\\U00011737", "\\U000118e7", "\\U00011957", "\\U00011c57",
          "\\U00011d57", "\\U00011da7", "\\U00016a67", "\\U00016ac7",
          "\\U00016b57", "\\U0001d7d5", "\\U0001d7df", "\\U0001d7e9",
          "\\U0001d7f3", "\\U0001d7fd", "\\U0001e147", "\\U0001e2f7",
          "\\U0001e957", "\\U0001fbf7" }
    [] v = 8 ->
        { "8", "\\u0668", "\\u06f8", "\\u07c8", "\\u096e", "\\u09ee",
          "\\u0a6e", "\\u0aee", "\\u0b6e", "\\u0bee", "\\u0c6e", "\\u0cee",
          "\\u0d6e", "\\u0dee", "\\u0e58", "\\u0ed8", "\\u0f28", "\\u1048",
          "\\u1098", "\\u17e8", "\\u1818", "\\u194e", "\\u19d8", "\\u1a88",
          "\\u1a98", "\\u1b58", "\\u1bb8", "\\u1c48", "\\u1c58", "\\ua628",
          "\\ua8d8", "\\ua908", "\\ua9d8", "\\ua9f8", "\\uaa58", "\\uabf8",
          "\\uff18", "\\U000104a8", "\\U00010d38", "\\U0001106e",
          "\\U000110f8", "\\U0001113e", "\\U000111d8", "\\U000112f8",
          "\\U00011458", "\\U000114d8", "\\U00011658", "\\U000116c8",
          "\\U00011738", "\\U000118e8", "\\U00011958", "\\U00011c58",
          "\\U00011d58", "\\U00011da8", "\\U00016a68", "\\U00016ac8",
          "\\U00016b58", "\\U0001d7d6", "\\U0001d7e0", "\\U0001d7ea",
          "\\U0001d7f4", "\\U0001d7fe", "\\U0001e148", "\\U0001e2f8",
          "\\U0001e958", "\\U0001fbf8" }
    [] v = 9 ->
        { "9", "\\u0669", "\\u06f9", "\\u07c9", "\\u096f", "\\u09ef",
          "\\u0a6f", "\\u0aef", "\\u0b6f", "\\u0bef", "\\u0c6f", "\\u0cef",
          "\\u0d6f", "\\u0def", "\\u0e59", "\\u0ed9", "\\u0f29", "\\u1049",
          "\\u1099", "\\u17e9", "\\u1819", "\\u194f", "\\u19d9", "\\u1a89",
          "\\u1a99", "\\u1b59", "\\u1bb9", "\\u1c49", "\\u1c59", "\\ua629",
          "\\ua8d9", "\\ua909", "\\ua9d9", "\\ua9f9", "\\uaa59", "\\uabf9",
          "\\uff19", "\\U000104a9", "\\U00010d39", "\\U0001106f",
          "\\U000110f9", "\\U0001113f", "\\U000111d9", "\\U000112f9",
          "\\U00011459", "\\U000114d9", "\\U00011659", "\\U000116c9",
          "\\U00011739", "\\U000118e9", "\\U00011959", "\\U00011c59",
          "\\U00011d59", "\\U00011da9", "\\U00016a69", "\\U00016ac9",
          "\\U00016b59", "\\U0001d7d7", "\\U0001d7e1", "\\U0001d7eb",
          "\\U0001d7f5", "\\U0001d7ff", "\\U0001e149", "\\U0001e2f9",
          "\\U0001e959", "\\U0001fbf9" }

Digit == UNION {DecimalDigits(v) : v \in 0..9}

DigitValue(c) == CHOOSE v \in 0..9 : c \in DecimalDigits(v)

\* str.lower(), for the letters float() looks at
Lower(c) ==
  CASE c = "I" -> "i" [] c = "N" -> "n" [] c = "F" -> "f" [] c = "A" -> "a"
    [] c = "T" -> "t" [] c = "Y" -> "y" [] c = "E" -> "e" [] OTHER -> c

\* str.replace(ch, '')
Remove(s, ch) == SelectSeq(s, LAMBDA c : c # ch)

RECURSIVE LStripOf(_, _)
LStripOf(s, ws) == IF s # <<>> /\ Head(s) \in ws THEN LStripOf(Tail(s), ws) ELSE s

RECURSIVE RStripOf(_, _)
RStripOf(s, ws) ==
  IF s # <<>> /\ s[Len(s)] \in ws
    THEN RStripOf(SubSeq(s, 1, Len(s) - 1), ws) ELSE s

LStrip(s) == LStripOf(s, Whitespace)

RStrip(s) == RStripOf(s, Whitespace)

\* str.strip()
Strip(s) == RStrip(LStrip(s))

\* float() skipping the whitespace around the number
FloatStrip(s) == RStripOf(LStripOf(s, FloatWhitespace), FloatWhitespace)

\* the values of float.  A finite double is named by the decimal number it is
\* the nearest double to: mant holds the significant digits of that decimal,
\* without leading or trailing zeros (none for zero), and the value is
\* mant * 10^exp.  Rounding inside the finite range gives a double that
\* the same decimal still names.
Finite(neg, mant, exp) ==
  [kind |-> "float", cls |-> "finite", neg |-> neg, mant |-> mant, exp |-> exp]
Inf(neg) == [kind |-> "float", cls |-> "inf", neg |-> neg, mant |-> <<>>, exp |-> 0]
NaN == [kind |-> "float", cls |-> "nan", neg |-> FALSE, mant |-> <<>>, exp |-> 0]

\* the values of a run of decimal digits
DigitValues(ds) == [i \in 1..Len(ds) |-> DigitValue(ds[i])]

\* a run of digit values without the zeros it starts with
DropLeadingZeros(ds) ==
  LET nz == {i \in 1..Len(ds) : ds[i] # 0} IN
    IF nz = {} THEN <<>>
    ELSE SubSeq(ds, CHOOSE i \in nz : \A j \in nz : i <= j, Len(ds))

\* a run of digit values without the zeros it ends with
DropTrailingZeros(ds) ==
  LET nz == {i \in 1..Len(ds) : ds[i] # 0} IN
    IF nz = {} THEN <<>>
    ELSE SubSeq(ds, 1, CHOOSE i \in nz : \A j \in nz : j <= i)

\* the decimal number ds * 10^exp in lowest terms, ds a run of digit values
Decimal(neg, ds, exp) ==
  LET lead == DropLeadingZeros(ds)
      sig == DropTrailingZeros(lead)
  IN IF sig = <<>> THEN Finite(neg, <<>>, 0)
     ELSE Finite(neg, sig, exp + (Len(lead) - Len(sig)))

\* the number a run of digit values writes
RECURSIVE DigitsToNat(_)
DigitsToNat(ds) ==
  IF ds = <<>> THEN 0
  ELSE 10 * DigitsToNat(SubSeq(ds, 1, Len(ds) - 1)) + ds[Len(ds)]

\* the string to double conversion takes at most MaxDigits digits, leading
\* zeros apart, and at most MaxDigits digits after the point; a longer number
\* is not converted
MaxDigits == 1000000000

\* the conversion saturates the written exponent: one of ten digits or more,
\* leading zeros apart, counts as MaxAbsExp, which no permitted number of
\* digits brings back into the range of double
MaxAbsExp == 1100000000

\* the written exponent, saturated
ExpValue(ds) ==
  LET sig == DropLeadingZeros(ds) IN
    IF Len(sig) > 9 THEN MaxAbsExp ELSE DigitsToNat(sig)

\* -1, 0 or 1 as the decimal fraction 0.a is below, equal to or above 0.b
CompareDigits(a, b) ==
  LET n == IF Len(a) >= Len(b) THEN Len(a) ELSE Len(b)
      x == [i \in 1..n |-> IF i <= Len(a) THEN a[i] ELSE 0]
      y == [i \in 1..n |-> IF i <= Len(b) THEN b[i] ELSE 0]
      differ == {i \in 1..n : x[i] # y[i]}
  IN IF differ = {} THEN 0
     ELSE LET k == CHOOSE i \in differ : \A j \in differ : i <= j
          IN IF x[k] < y[k] THEN 0 - 1 ELSE 1

\* the digits of 2^1024 - 2^970, half way between the largest double and
\* 2^1024: a number of that size or more is rounded to infinity
OverflowDigits ==
  << 1, 7, 9, 7, 6, 9, 3, 1, 3, 4, 8, 6, 2, 3, 1, 5, 8, 0, 7, 9, 3, 7, 2,
     8, 9, 7, 1, 4, 0, 5, 3, 0, 3, 4, 1, 5, 0, 7, 9, 9, 3, 4, 1, 3, 2, 7,
     1, 0, 0, 3, 7, 8, 2, 6, 9, 3, 6, 1, 7, 3, 7, 7, 8, 9, 8, 0, 4, 4, 4,
     9, 6, 8, 2, 9, 2, 7, 6, 4, 7, 5, 0, 9, 4, 6, 6, 4, 9, 0, 1, 7, 9, 7,
     7, 5, 8, 7, 2, 0, 7, 0, 9, 6, 3, 3, 0, 2, 8, 6, 4, 1, 6, 6, 9, 2, 8,
     8, 7, 9, 1, 0, 9, 4, 6, 5, 5, 5, 5, 4, 7, 8, 5, 1, 9, 4, 0, 4, 0, 2,
     6, 3, 0, 6, 5, 7, 4, 8, 8, 6, 7, 1, 5, 0, 5, 8, 2, 0, 6, 8, 1, 9, 0,
     8, 9, 0, 2, 0, 0, 0, 7, 0, 8, 3, 8, 3, 6, 7, 6, 2, 7, 3, 8, 5, 4, 8,
     4, 5, 8, 1, 7, 7, 1, 1, 5, 3, 1, 7, 6, 4, 4, 7, 5, 7, 3, 0, 2, 7, 0,
     0, 6, 9, 8, 5, 5, 5, 7, 1, 3, 6, 6, 9, 5, 9, 6, 2, 2, 8, 4, 2, 9, 1,
     4, 8, 1, 9, 8, 6, 0, 8, 3, 4, 9, 3, 6, 4, 7, 5, 2, 9, 2, 7, 1, 9, 0,
     7, 4, 1, 6, 8, 4, 4, 4, 3, 6, 5, 5, 1, 0, 7, 0, 4, 3, 4, 2, 7, 1, 1,
     5, 5, 9, 6, 9, 9, 5, 0, 8, 0, 9, 3, 0, 4, 2, 8, 8, 0, 1, 7, 7, 9, 0,
     4, 1, 7, 4, 4, 9, 7, 7, 9, 2 >>

\* 10^OverflowTop is the power of ten just above 2^1024 - 2^970
OverflowTop == 309

\* the digits of 2^-1075 = 5^1075 * 10^-1075, half of the smallest positive
\* double: a number of that size or less is rounded to zero
UnderflowDigits ==
  << 2, 4, 7, 0, 3, 2, 8, 2, 2, 9, 2, 0, 6, 2, 3, 2, 7, 2, 0, 8, 8, 2, 8,
     4, 3, 9, 6, 4, 3, 4, 1, 1, 0, 6, 8, 6, 1, 8, 2, 5, 2, 9, 9, 0, 1, 3,
     0, 7, 1, 6, 2, 3, 8, 2, 2, 1, 2, 7, 9, 2, 8, 4, 1, 2, 5, 0, 3, 3, 7,
     7, 5, 3, 6, 3, 5, 1, 0, 4, 3, 7, 5, 9, 3, 2, 6, 4, 9, 9, 1, 8, 1, 8,
     0, 8, 1, 7, 9, 9, 6, 1, 8, 9, 8, 9, 8, 2, 8, 2, 3, 4, 7, 7, 2, 2, 8,
     5, 8, 8, 6, 5, 4, 6, 3, 3, 2, 8, 3, 5, 5, 1, 7, 7, 9, 6, 9, 8, 9, 8,
     1, 9, 9, 3, 8, 7, 3, 9, 8, 0, 0, 5, 3, 9, 0, 9, 3, 9, 0, 6, 3, 1, 5,
     0, 3, 5, 6, 5, 9, 5, 1, 5, 5, 7, 0, 2, 2, 6, 3, 9, 2, 2, 9, 0, 8, 5,
     8, 3, 9, 2, 4, 4, 9, 1, 0, 5, 1, 8, 4, 4, 3, 5, 9, 3, 1, 8, 0, 2, 8,
     4, 9, 9, 3, 6, 5, 3, 6, 1, 5, 2, 5, 0, 0, 3, 1, 9, 3, 7, 0, 4, 5, 7,
     6, 7, 8, 2, 4, 9, 2, 1, 9, 3, 6, 5, 6, 2, 3, 6, 6, 9, 8, 6, 3, 6, 5,
     8, 4, 8, 0, 7, 5, 7, 0, 0, 1, 5, 8, 5, 7, 6, 9, 2, 6, 9, 9, 0, 3, 7,
     0, 6, 3, 1, 1, 9, 2, 8, 2, 7, 9, 5, 5, 8, 5, 5, 1, 3, 3, 2, 9, 2, 7,
     8, 3, 4, 3, 3, 8, 4, 0, 9, 3, 5, 1, 9, 7, 8, 0, 1, 5, 5, 3, 1, 2, 4,
     6, 5, 9, 7, 2, 6, 3, 5, 7, 9, 5, 7, 4, 6, 2, 2, 7, 6, 6, 4, 6, 5, 2,
     7, 2, 8, 2, 7, 2, 2, 0, 0, 5, 6, 3, 7, 4, 0, 0, 6, 4, 8, 5, 4, 9, 9,
     9, 7, 7, 0, 9, 6, 5, 9, 9, 4, 7, 0, 4, 5, 4, 0, 2, 0, 8, 2, 8, 1, 6,
     6, 2, 2, 6, 2, 3, 7, 8, 5, 7, 3, 9, 3, 4, 5, 0, 7, 3, 6, 3, 3, 9, 0,
     0, 7, 9, 6, 7, 7, 6, 1, 9, 3, 0, 5, 7, 7, 5, 0, 6, 7, 4, 0, 1, 7, 6,
     3, 2, 4, 6, 7, 3, 6, 0, 0, 9, 6, 8, 9, 5, 1, 3, 4, 0, 5, 3, 5, 5, 3,
     7, 4, 5, 8, 5, 1, 6, 6, 6, 1, 1, 3, 4, 2, 2, 3, 7, 6, 6, 6, 7, 8, 6,
     0, 4, 1, 6, 2, 1, 5, 9, 6, 8, 0, 4, 6, 1, 9, 1, 4, 4, 6, 7, 2, 9, 1,
     8, 4, 0, 3, 0, 0, 5, 3, 0, 0, 5, 7, 5, 3, 0, 8, 4, 9, 0, 4, 8, 7, 6,
     5, 3, 9, 1, 7, 1, 1, 3, 8, 6, 5, 9, 1, 6, 4, 6, 2, 3, 9, 5, 2, 4, 9,
     1, 2, 6, 2, 3, 6, 5, 3, 8, 8, 1, 8, 7, 9, 6, 3, 6, 2, 3, 9, 3, 7, 3,
     2, 8, 0, 4, 2, 3, 8, 9, 1, 0, 1, 8, 6, 7, 2, 3, 4, 8, 4, 9, 7, 6, 6,
     8, 2, 3, 5, 0, 8, 9, 8, 6, 3, 3, 8, 8, 5, 8, 7, 9, 2, 5, 6, 2, 8, 3,
     0, 2, 7, 5, 5, 9, 9, 5, 6, 5, 7, 5, 2, 4, 4, 5, 5, 5, 0, 7, 2, 5, 5,
     1, 8, 9, 3, 1, 3, 6, 9, 0, 8, 3, 6, 2, 5, 4, 7, 7, 9, 1, 8, 6, 9, 4,
     8, 6, 6, 7, 9, 9, 4, 9, 6, 8, 3, 2, 4, 0, 4, 9, 7, 0, 5, 8, 2, 1, 0,
     2, 8, 5, 1, 3, 1, 8, 5, 4, 5, 1, 3, 9, 6, 2, 1, 3, 8, 3, 7, 7, 2, 2,
     8, 2, 6, 1, 4, 5, 4, 3, 7, 6, 9, 3, 4, 1, 2, 5, 3, 2, 0, 9, 8, 5, 9,
     1, 3, 2, 7, 6, 6, 7, 2, 3, 6, 3, 2, 8, 1, 2, 5 >>

\* 10^UnderflowTop is the power of ten just above 2^-1075
UnderflowTop == 0 - 323

\* the double nearest to a decimal number: infinity beyond the range of
\* double, zero below it (the sign is kept)
RoundToDouble(x) ==
  LET top == Len(x.mant) + x.exp IN
    IF x.mant = <<>> THEN x
    ELSE IF \/ top > OverflowTop
            \/ top = OverflowTop /\ CompareDigits(x.mant, OverflowDigits) >= 0
      THEN Inf(x.neg)
    ELSE IF \/ top < UnderflowTop
            \/ top = UnderflowTop /\ CompareDigits(x.mant, UnderflowDigits) <= 0
      THEN Finite(x.neg, <<>>, 0)
    ELSE x

\* the first position at or after i that holds no digit
DigitsEnd(s, i) ==
  CHOOSE j \in i..(Len(s) + 1) :
    /\ \A k \in i..(j - 1) : s[k] \in Digit
    /\ j = Len(s) + 1 \/ s[j] \notin Digit

\* float(): an underscore is accepted only between two digits
UnderscoresOk(s) ==
  \A i \in 1..Len(s) :
    s[i] = "_" => /\ i > 1 /\ i < Len(s)
                  /\ s[i - 1] \in Digit /\ s[i + 1] \in Digit

\* float() on a string without whitespace around it and without underscores:
\* [sign] (inf | infinity | nan), any case, or
\* [sign] digits [. digits] [(e|E) [sign] digits] with a digit before the
\* exponent; the whole string has to be used up, and the number may not
\* have more than MaxDigits digits.
ParseFloat(t) ==
  LET n == Len(t)
      hasSign == n >= 1 /\ t[1] \in {"+", "-"}
      neg == hasSign /\ t[1] = "-"
      p1 == IF hasSign THEN 2 ELSE 1
      word == [i \in 1..(n - p1 + 1) |-> Lower(t[p1 + i - 1])]
  IN
  IF word \in {<<"i", "n", "f">>, <<"i", "n", "f", "i", "n", "i", "t", "y">>}
    THEN Inf(neg)
  ELSE IF word = <<"n", "a", "n">> THEN NaN
  ELSE
    LET intEnd == DigitsEnd(t, p1)
        hasDot == intEnd <= n /\ t[intEnd] = "."
        fracStart == IF hasDot THEN intEnd + 1 ELSE intEnd
        fracEnd == DigitsEnd(t, fracStart)
        ndigits == (intEnd - p1) + (fracEnd - fracStart)
        intSig == DropLeadingZeros(DigitValues(SubSeq(t, p1, intEnd - 1)))
        fracVals == DigitValues(SubSeq(t, fracStart, fracEnd - 1))
        counted == IF intSig = <<>> THEN Len(DropLeadingZeros(fracVals))
                   ELSE Len(intSig) + Len(fracVals)
        hasE == fracEnd <= n /\ t[fracEnd] \in {"e", "E"}
        eSign == hasE /\ fracEnd + 1 <= n /\ t[fracEnd + 1] \in {"+", "-"}
        eStart == IF eSign THEN fracEnd + 2 ELSE fracEnd + 1
        eEnd == IF hasE THEN DigitsEnd(t, eStart) ELSE fracEnd
        hasExp == hasE /\ eEnd > eStart
        stop == IF hasExp THEN eEnd ELSE fracEnd
        mant == DigitValues(SubSeq(t, p1, intEnd - 1)
                            \o SubSeq(t, fracStart, fracEnd - 1))
        written == IF hasExp THEN ExpValue(DigitValues(SubSeq(t, eStart, eEnd - 1)))
                   ELSE 0
        e == IF eSign /\ t[fracEnd + 1] = "-" THEN 0 - written ELSE written
    IN
    IF ndigits = 0 \/ stop # n + 1 THEN Raise("ValueError")
    ELSE IF counted > MaxDigits \/ Len(fracVals) > MaxDigits
      THEN Raise("ValueError")
    ELSE RoundToDouble(Decimal(neg, mant, e - (fracEnd - fracStart)))

\* float(s) for a str s
float(s) ==
  LET t == FloatStrip(s) IN
    IF t = <<>> \/ ~UnderscoresOk(t) THEN Raise("ValueError")
    ELSE ParseFloat(Remove(t, "_"))

\* normalize_price, line 47
Cleaned(s) == Strip(Remove(Remove(s, "$"), ","))

\* normalize_price, lines 43-52
normalize_price(s) ==
  IF s = <<>> THEN NoneVal
  ELSE IF float(Cleaned(s)).kind = "raise" THEN
         (IF float(Cleaned(s)).exc = "ValueError" THEN NoneVal
          ELSE float(Cleaned(s)))
  ELSE float(Cleaned(s))

\* the price strings of the specification's examples
PriceExamples ==
  { <<"$", "1", ",", "2", "3", "4", ".", "5", "6">>,
    <<"1", "2", "3", "4", ".", "5", "6">>,
    <<" ", " ", "4", "2", " ">>,
    <<>>,
    <<"N", "/", "A">>,
    <<"-", "-">>,
    <<"$", "1", "0", "0">>,
    <<"b", "a", "d">>,
    <<"$", "5", "0">>,
    <<"1", "_", "0", "0", "0">>,
    <<"\f", "4", "2">>,
    <<"$", "\\xa0", "5">>,
    <<"\\x1c", "4", "2", "\\x1c">>,
    <<"\\u0663", "\\u0664">>,
    <<"1", "\\uff12", ".", "\\U0001d7d3">>,
    <<"I", "n", "f", "i", "n", "i", "t", "y">>,
    <<"1", "e", "3", "0", "9">>,
    <<"-", "1", "e", "4", "0", "0">>,
    <<"1", "7", "9", "7", "6", "9", "3", "2", "e", "3", "0", "1">>,
    <<"1", "7", "9", "7", "6", "9", "3", "1", "e", "3", "0", "1">>,
    <<"1", "e", "-", "4", "0", "0">>,
    <<"3", "e", "-", "3", "2", "4">>,
    <<"2", "1", "4", "7", "4", "8", "3", "6", "4", "8">>,
    <<"1", "e", "9", "9", "9", "9", "9", "9", "9", "9", "9", "9">>,
    [i \in 1..310 |-> IF i = 1 THEN "1" ELSE "0"] }

PriceAlphabet == {"$", ",", " ", ".", "-", "1", "5", "e", "_", "n", "a", "i", "f"}

PriceInputs ==
  PriceExamples \cup UNION {[1..k -> PriceAlphabet] : k \in 0..MaxPriceLen}

InitPrice ==
  /\ price_str \in PriceInputs
  /\ price_pc = "called"
  /\ price_result = NoneVal

\* one call normalize_price(price_str)
NormalizePrice ==
  /\ price_pc = "called"
  /\ price_result' = normalize_price(price_str)
  /\ price_pc' = "done"
  /\ UNCHANGED price_str
  /\ UNCHANGED notPriceVars

(***************************************************************************)
(* data_formatter.py: format_scraped_data.  The rates list and the raw_data *)
(* dict are objects of the adapter; heap holds their contents and the       *)
(* arguments are references to them.  A raw rate entry is a dict with a     *)
(* price string.                                                            *)
(***************************************************************************)
MaxRates == 3
MaxFormatCalls == 2
MaxWall == 2

\* shared/otas.json, read by otas.py lines 16-19
WHITELIST_OTAS == {"booking", "expedia", "agoda", "trip"}

OtaInputs == WHITELIST_OTAS \cup {"", "Booking", "hotels"}

SamplePrices ==
  { <<"$", "1", "0", "0">>, <<"b", "a", "d">>, <<"$", "5", "0">> }

RawEntries == {[price |-> p] : p \in SamplePrices}

RatesRef == "ref_rates"
RawRef == "ref_raw"

\* the query of a call: hotel_name, check_in, check_out
QueryInputs ==
  { <<"Grand Hotel", "2025-06-01", "2025-06-03">>,
    <<"", "2025-06-03", "2025-06-01">> }

Payload == <<"payload">>
EditedPayload == <<"payload", "edited">>

\* datetime.isoformat() of a clock reading
isoformat(t) == <<"iso", t>>

\* A formatter that mixes up the two dates.
FormatSwapsDates(o, h, ci, co, r, raw, now) ==
  [ota_name |-> o, hotel_name |-> h, check_in_date |-> co, check_out_date |-> ci,
   scraped_at |-> isoformat(now), rates |-> r, raw_data |-> raw]

\* format_scraped_data, lines 26-34: the dict literal; rates and raw_data are
\* stored as passed, by reference
format_scraped_data(o, h, ci, co, r, raw, now) ==
  [ota_name |-> o, hotel_name |-> h, check_in_date |-> ci, check_out_date |-> co,
   scraped_at |-> isoformat(now), rates |-> r, raw_data |-> raw]

InitNorm ==
  /\ n_pc = "ready"
  /\ ota_name \in OtaInputs
  /\ \E q \in QueryInputs :
       hotel_name = q[1] /\ check_in = q[2] /\ check_out = q[3]
  /\ rates_arg = RatesRef
  /\ raw_arg \in {None, RawRef}
  /\ \E rs \in UNION {[1..k -> RawEntries] : k \in 0..MaxRates} :
       /\ heap = [ref \in {RatesRef, RawRef} |->
                    IF ref = RatesRef THEN rs ELSE Payload]
       /\ rates_in = rs
  /\ records = <<>>
  /\ returned = <<>>
  /\ wall = 0

\* one call format_scraped_data(ota_name, hotel_name, check_in, check_out,
\* rates, raw_data)
FormatCall ==
  /\ n_pc = "ready"
  /\ Len(records) < MaxFormatCalls
  /\ records' = Append(records,
       format_scraped_data(ota_name, hotel_name, check_in, check_out,
                           rates_arg, raw_arg, wall))
  /\ returned' = Append(returned, heap)
  /\ UNCHANGED <<n_pc, ota_name, hotel_name, check_in, check_out, rates_arg,
                 raw_arg, heap, rates_in, wall>>
  /\ UNCHANGED notNormVars

\* the wall clock moves on
WallTick ==
  /\ wall < MaxWall
  /\ wall' = wall + 1
  /\ UNCHANGED <<n_pc, ota_name, hotel_name, check_in, check_out, rates_arg,
                 raw_arg, heap, rates_in, records, returned>>
  /\ UNCHANGED notNormVars

(***************************************************************************)
(* After a call has returned the adapter still holds the list and the dict  *)
(* it passed, and may change them: list.append, list.pop, list[i] = entry,  *)
(* dict[key] = value.  A run makes at most one such change.                 *)
(***************************************************************************)
MayMutate ==
  /\ records # <<>>
  /\ \A n \in 1..Len(returned) : returned[n] = heap

AppendEntry(e) ==
  /\ MayMutate
  /\ Len(heap[RatesRef]) < MaxRates
  /\ heap' = [heap EXCEPT ![RatesRef] = Append(@, e)]
  /\ UNCHANGED <<n_pc, ota_name, hotel_name, check_in, check_out, rates_arg,
                 raw_arg, rates_in, records, returned, wall>>
  /\ UNCHANGED notNormVars

RemoveEntry ==
  /\ MayMutate
  /\ heap[RatesRef] # <<>>
  /\ heap' = [heap EXCEPT ![RatesRef] = SubSeq(@, 1, Len(@) - 1)]
  /\ UNCHANGED <<n_pc, ota_name, hotel_name, check_in, check_out, rates_arg,
                 raw_arg, rates_in, records, returned, wall>>
  /\ UNCHANGED notNormVars

ChangeEntry(i, e) ==
  /\ MayMutate
  /\ i \in 1..Len(heap[RatesRef])
  /\ heap[RatesRef][i] # e
  /\ heap' = [heap EXCEPT ![RatesRef][i] = e]
  /\ UNCHANGED <<n_pc, ota_name, hotel_name, check_in, check_out, rates_arg,
                 raw_arg, rates_in, records, returned, wall>>
  /\ UNCHANGED notNormVars

ChangePayload ==
  /\ MayMutate
  /\ raw_arg = RawRef
  /\ heap' = [heap EXCEPT ![RawRef] = EditedPayload]
  /\ UNCHANGED <<n_pc, ota_name, hotel_name, check_in, check_out, rates_arg,
                 raw_arg, rates_in, records, returned, wall>>
  /\ UNCHANGED notNormVars

\* the list a record's rates field refers to
RatesOf(rec) == heap[rec.rates]

\* the payload a record's raw_data field refers to, if any
RawDataOf(rec) == IF rec.raw_data = None THEN NoneVal ELSE ListOf(heap[rec.raw_data])

\* dict.get("amount")
Amount(entry) == IF "amount" \in DOMAIN entry THEN entry.amount ELSE NoneVal

(***************************************************************************)
(* The adapters: <Ota>Scraper.scrape_rates(hotel_name, check_in, check_out, *)
(* adults).  Dates are days of June 2025 ("2025-06-dd").                    *)
(***************************************************************************)
MaxDay == 3
MaxAdults == 2

Variants == {"BookingScraper", "ExpediaScraper", "AgodaScraper", "TripScraper"}

\* An adapter that answers with an empty record instead.
ScraperReturnsRecord(h, ci, co, a) == [kind |-> "record", rates |-> <<>>]

\* booking/scraper.py, line 21
BookingScraper_scrape_rates(h, ci, co, a) == Raise("NotImplementedError")

\* expedia/scraper.py, line 21
ExpediaScraper_scrape_rates(h, ci, co, a) == Raise("NotImplementedError")

\* agoda/scraper.py, line 21
AgodaScraper_scrape_rates(h, ci, co, a) == Raise("NotImplementedError")

\* trip/scraper.py, line 21
TripScraper_scrape_rates(h, ci, co, a) == Raise("NotImplementedError")

\* the method the call is dispatched to
scrape_rates(v, h, ci, co, a) ==
  CASE v = "BookingScraper" -> BookingScraper_scrape_rates(h, ci, co, a)
    [] v = "ExpediaScraper" -> ExpediaScraper_scrape_rates(h, ci, co, a)
    [] v = "AgodaScraper" -> AgodaScraper_scrape_rates(h, ci, co, a)
    [] v = "TripScraper" -> TripScraper_scrape_rates(h, ci, co, a)

InitScraper ==
  /\ variant \in Variants
  /\ q_hotel \in {"", "Grand Hotel"}
  /\ q_check_in \in 1..MaxDay
  /\ q_check_out \in 1..MaxDay
  /\ q_adults \in 0..MaxAdults
  /\ s_pc = "called"
  /\ s_outcome = NoneVal

\* one call scraper.scrape_rates(q_hotel, q_check_in, q_check_out, q_adults):
\* the body is the raise statement alone
ScrapeRates ==
  /\ s_pc = "called"
  /\ s_outcome' = scrape_rates(variant, q_hotel, q_check_in, q_check_out, q_adults)
  /\ s_pc' = "done"
  /\ UNCHANGED <<variant, q_hotel, q_check_in, q_check_out, q_adults>>
  /\ UNCHANGED notScrVars

(***************************************************************************)
(* data_formatter.py and the adapters: the states in which they are not     *)
(* called.                                                                  *)
(***************************************************************************)
PriceIdle ==
  /\ price_str = <<>>
  /\ price_pc = "idle"
  /\ price_result = NoneVal

NormIdle ==
  /\ n_pc = "idle"
  /\ ota_name = None
  /\ hotel_name = None
  /\ check_in = None
  /\ check_out = None
  /\ rates_arg = None
  /\ raw_arg = None
  /\ heap = <<>>
  /\ rates_in = <<>>
  /\ records = <<>>
  /\ returned = <<>>
  /\ wall = 0

ScraperIdle ==
  /\ variant = None
  /\ q_hotel = None
  /\ q_check_in = 0
  /\ q_check_out = 0
  /\ q_adults = 0
  /\ s_pc = "idle"
  /\ s_outcome = NoneVal

NextSel ==
  \/ UntilEnter
  \/ Poll
  \/ \E over \in 0..MaxOversleep : PollSleep(over)
  \/ Deadline
  \/ SafeLookup

InitSelSpec == LimiterIdle /\ InitSel /\ PriceIdle /\ NormIdle /\ ScraperIdle

\* The polling loop runs on its caller's thread, which keeps executing.
SpecSel == InitSelSpec /\ [][NextSel]_vars /\ WF_vars(NextSel)

(***************************************************************************)
(* SpecSeq: one caller issues its calls one after another.                 *)
(* SpecConc: the threads of Threads call concurrently, statement by        *)
(* statement interleaved (attribute reads and writes are atomic).          *)
(***************************************************************************)
NextSeq == Tick \/ ThreadStep(MainThread)

\* In the concurrent runs every caller uses the decorator.
ConcStep(t) ==
  \/ \E l \in Limiters : Call(t, l, "gate", "a1", MaxConcCalls)
  \/ ReadClock(t)
  \/ ReadLast(t)
  \/ Check(t)
  \/ Wake(t)
  \/ StampRead(t)
  \/ Stamp(t)
  \/ OpStart(t)
  \/ OpEnd(t, "r1")
  \/ Return(t)

NextConc == Tick \/ \E t \in Threads : ConcStep(t)

NextPrice == NormalizePrice

InitPriceSpec == LimiterIdle /\ SelIdle /\ InitPrice /\ NormIdle /\ ScraperIdle

SpecPrice == InitPriceSpec /\ [][NextPrice]_vars

NextNorm ==
  \/ FormatCall
  \/ WallTick
  \/ \E e \in RawEntries : AppendEntry(e)
  \/ RemoveEntry
  \/ \E i \in 1..MaxRates, e \in RawEntries : ChangeEntry(i, e)
  \/ ChangePayload

InitNormSpec == LimiterIdle /\ SelIdle /\ PriceIdle /\ InitNorm /\ ScraperIdle

SpecNorm == InitNormSpec /\ [][NextNorm]_vars

NextScrape == ScrapeRates

InitScrapeSpec == LimiterIdle /\ SelIdle /\ PriceIdle /\ NormIdle /\ InitScraper

SpecScrape == InitScrapeSpec /\ [][NextScrape]_vars

InitSeq == InitLimiter /\ SelIdle /\ PriceIdle /\ NormIdle /\ ScraperIdle

SpecSeq == InitSeq /\ [][NextSeq]_vars

SpecConc == InitSeq /\ [][NextConc]_vars

(***************************************************************************)
(* Two callers, each with a RateLimiter instance of its own, running gated  *)
(* calls concurrently (a gated call runs wait() first, wrapper() line 33).  *)
(***************************************************************************)
OwnLimiter(t) == t

OwnStep(t) ==
  \/ Call(t, OwnLimiter(t), "gate", "a1", MaxConcCalls)
  \/ ReadClock(t)
  \/ ReadLast(t)
  \/ Check(t)
  \/ Wake(t)
  \/ StampRead(t)
  \/ Stamp(t)
  \/ OpStart(t)
  \/ OpEnd(t, "r1")
  \/ Return(t)

NextOwn == Tick \/ \E t \in Threads : OwnStep(t)

SpecOwn == InitSeq /\ [][NextOwn]_vars

(***************************************************************************)
(* One caller that only calls limiter.wait() directly.  The caller's thread *)
(* keeps being scheduled and time keeps passing, so both are weakly fair.   *)
(***************************************************************************)
WaitStep(t) ==
  \/ \E l \in Limiters : Call(t, l, "wait", None, MaxCalls)
  \/ ReadClock(t)
  \/ ReadLast(t)
  \/ Check(t)
  \/ Wake(t)
  \/ StampRead(t)
  \/ Stamp(t)
  \/ Return(t)

NextWait == Tick \/ WaitStep(MainThread)

SpecWait ==
  InitSeq /\ [][NextWait]_vars /\ WF_vars(Tick) /\ WF_vars(WaitStep(MainThread))

(***************************************************************************)
(* Claims about the rate limiter.                                          *)
(***************************************************************************)
Last(s) == s[Len(s)]

\* C1: in sequential use of one limiter instance the stamps of any two
\* consecutive wait() calls differ by at least min_delay, and so the span from
\* the first stamp to the Nth is at least (N-1) * min_delay.
C1_SequentialStartsSpaced ==
  \A l \in Limiters :
    /\ \A i \in 1..(Len(starts[l]) - 1) :
         starts[l][i + 1] - starts[l][i] >= min_delay[l]
    /\ Len(starts[l]) >= 2 =>
         Last(starts[l]) - starts[l][1] >= (Len(starts[l]) - 1) * min_delay[l]

\* Three calls on a limiter with the largest delay, paced exactly.
C1_Witness ==
  \E l \in Limiters :
    /\ min_delay[l] = MaxDelay
    /\ Len(starts[l]) = 3
    /\ starts[l][3] - starts[l][1] = 2 * MaxDelay

\* C2: with several threads calling through one limiter instance, the stamps
\* of any two gated calls are still at least min_delay apart.
C2_ConcurrentStartsSpaced ==
  \A l \in Limiters :
    \A i, j \in 1..Len(starts[l]) :
      i < j => starts[l][j] - starts[l][i] >= min_delay[l]

\* C3: a gated call starts the operation only after wait() has returned and
\* has stamped last_request_time; it invokes the operation exactly once, with
\* the caller's arguments, and hands the operation's outcome back unchanged.
C3_GateWaitsThenCallsOnce ==
  \A t \in Threads :
    via[t] = "gate" =>
      /\ op_calls[t] > 0 => wait_returned[t]
      /\ pc[t] \in {"read_clock", "read_last", "check", "sleeping", "stamp",
                   "store"} =>
           op_calls[t] = 0 /\ ~wait_returned[t]
      /\ pc[t] = "func" => op_calls[t] = 0
      /\ pc[t] \in {"func", "in_op", "done"} =>
           /\ wait_returned[t]
           /\ starts[lim[t]] # <<>>
           /\ last_request_time[lim[t]] = Last(starts[lim[t]])
      /\ pc[t] \in {"in_op", "done"} =>
           op_calls[t] = 1 /\ op_args[t] = args[t]
      /\ pc[t] = "done" => ret[t] = op_out[t] /\ op_out[t] \in OpOutcomes

\* A gated call that slept, ran the operation and returned its result.
C3_Witness ==
  \E t \in Threads :
    /\ via[t] = "gate" /\ pc[t] = "done"
    /\ args[t] = "a2" /\ ret[t] = "r2"
    /\ Len(starts[lim[t]]) >= 2

(***************************************************************************)
(* Claims about the bounded waits and the safe lookups.                    *)
(***************************************************************************)
\* The session stays alive and never satisfies the condition of the wait.
NeverSatisfied ==
  /\ dies_at = Never
  /\ \/ appears_at = Never
     \/ sel_fn = "wait_for_clickable" /\ clickable_after = Never

\* C4: a bounded wait on a live session that never satisfies the condition
\* terminates, returning None; the timeout does not reach the caller as an
\* error.
C4_WaitEndsWithNone ==
  (sel_fn \in WaitFns /\ NeverSatisfied)
    ~> (sel_pc = "done" /\ sel_result = NoneVal /\ sel_raised = None)

\* A wait that polled more than once, ran into its timeout and gave None.
C4_Witness ==
  /\ sel_fn \in WaitFns /\ NeverSatisfied
  /\ sel_timeout = MaxTimeout
  /\ sel_pc = "done" /\ sel_result = NoneVal /\ sel_raised = None
  /\ lookups >= 2 /\ mono > end_time

\* C10: when nothing matches, safe_find_element returns None and
\* safe_find_elements an empty list, no not-found error reaches the caller,
\* and either makes one driver lookup and never sleeps.
C10_SafeLookupAbsent ==
  (sel_fn \in SafeFns /\ sel_pc = "done") =>
    /\ lookups = 1 /\ sleeps = 0 /\ mono = 0
    /\ sel_raised # "NoSuchElementException"
    /\ (dies_at = Never /\ appears_at > 0) =>
         /\ sel_raised = None
         /\ sel_fn = "safe_find_element" => sel_result = NoneVal
         /\ sel_fn = "safe_find_elements" => sel_result = ListOf(<<>>)

\* A safe single lookup that found nothing.
C10_Witness ==
  /\ sel_fn = "safe_find_element" /\ sel_pc = "done"
  /\ dies_at = Never /\ appears_at > 0
  /\ sel_result = NoneVal /\ lookups = 1

(***************************************************************************)
(* Claims about the normalizer.                                            *)
(***************************************************************************)
\* C5: a record is produced only when ota_name is in the whitelist; for every
\* other name the call fails and returns nothing.
C5_WhitelistEnforced ==
  records # <<>> => ota_name \in WHITELIST_OTAS

\* C6: the rates of a record have the length and order of the input, and the
\* amount of each is the price-parsing result of that entry's price.
C6_RatesParsedInOrder ==
  \A n \in 1..Len(records) :
    /\ Len(RatesOf(records[n])) = Len(rates_in)
    /\ \A i \in 1..Len(rates_in) :
         Amount(RatesOf(records[n])[i]) = normalize_price(rates_in[i].price)

\* the characters a plain decimal number is written with
NumericChars == Digit \cup {".", "+", "-"}

\* digits with at most one point among them
IsPlainDecimal(t) ==
  /\ \A i \in 1..Len(t) : t[i] \in Digit \cup {"."}
  /\ \E i \in 1..Len(t) : t[i] \in Digit
  /\ Cardinality({i \in 1..Len(t) : t[i] = "."}) <= 1

\* the value a plain decimal number writes
DecimalValue(t) ==
  LET dots == {i \in 1..Len(t) : t[i] = "."}
      after == IF dots = {} THEN 0 ELSE Len(t) - (CHOOSE i \in dots : TRUE)
  IN Decimal(FALSE, DigitValues(Remove(t, ".")), 0 - after)

\* C7: normalize_price never raises; it gives the value of a string that is a
\* plain decimal number once '$', ',' and the surrounding whitespace are
\* removed, and None for a string that is empty, has no digit, or still holds
\* a non-numeric character (a letter, an underscore) after that.
C7_PriceParsing ==
  price_pc = "done" =>
    LET t == Cleaned(price_str) IN
      /\ price_result.kind # "raise"
      /\ IsPlainDecimal(t) => price_result = DecimalValue(t)
      /\ (\/ t = <<>>
          \/ \A i \in 1..Len(t) : t[i] \notin Digit
          \/ \E i \in 1..Len(t) : t[i] \notin NumericChars)
           => price_result = NoneVal

(***************************************************************************)
(* Claims about the adapters.                                              *)
(***************************************************************************)
ValidQuery == q_hotel # "" /\ q_check_in < q_check_out /\ q_adults >= 1

\* nothing of the rate limiter, the waits or the normalizer has run
NoInteraction ==
  /\ ncalls = 0 /\ \A l \in Limiters : starts[l] = <<>>
  /\ \A t \in Threads : pc[t] = "idle"
  /\ sel_pc = "idle" /\ lookups = 0 /\ sleeps = 0
  /\ n_pc = "idle" /\ records = <<>>
  /\ price_pc = "idle"

\* C8: every adapter answers an invalid query with InvalidQuery, before any
\* rate-limiter wait or session interaction.
C8_InvalidQueryRejected ==
  (s_pc = "done" /\ ~ValidQuery) =>
    s_outcome = Raise("InvalidQuery") /\ NoInteraction

\* C9: every adapter answers a valid query with NotImplemented, never with a
\* record or another error, and without touching the rate limiter, the wait
\* utilities or the normalizer.
C9_ValidQueryNotImplemented ==
  (s_pc = "done" /\ ValidQuery) =>
    s_outcome = Raise("NotImplementedError") /\ NoInteraction

\* A valid query that an adapter has answered.
C9_Witness ==
  /\ s_pc = "done" /\ ValidQuery
  /\ variant = "TripScraper"
  /\ s_outcome.kind = "raise"

(***************************************************************************)
(* C11: two calls of format_scraped_data with the same ota_name, query,     *)
(* raw entries and raw payload give records that agree in every field       *)
(* except scraped_at; hotel_name, check_in_date and check_out_date are the   *)
(* query's values as passed and raw_data is the payload that was passed.    *)
(***************************************************************************)
ComparedFields ==
  {"ota_name", "hotel_name", "check_in_date", "check_out_date", "rates", "raw_data"}

C11_NormalizeDeterministic ==
  /\ \A i, j \in 1..Len(records) :
        returned[i] = returned[j]
          => /\ \A f \in ComparedFields : records[i][f] = records[j][f]
             /\ returned[i][records[i].rates] = returned[j][records[j].rates]
  /\ \A n \in 1..Len(records) :
        /\ DOMAIN records[n] = ComparedFields \cup {"scraped_at"}
        /\ records[n].ota_name = ota_name
        /\ records[n].hotel_name = hotel_name
        /\ records[n].check_in_date = check_in
        /\ records[n].check_out_date = check_out
        /\ records[n].rates = rates_arg
        /\ records[n].raw_data = raw_arg

C11_Witness ==
  /\ Len(records) = 2
  /\ returned[1] = returned[2]
  /\ records[1].scraped_at # records[2].scraped_at
  /\ records[2].raw_data = RawRef
  /\ records[2].hotel_name = ""
  /\ records[2].check_in_date = "2025-06-03"
  /\ Len(returned[2][records[2].rates]) >= 2

(***************************************************************************)
(* C12: every wait() that is entered returns, and returns normally; the     *)
(* sleep it asks for is positive and at most min_delay, and it asks for     *)
(* none when min_delay or more had passed since last_request_time at entry. *)
(***************************************************************************)
WaitBlocksWithinDelay(t) ==
  /\ ret[t] # "ValueError"
  /\ pc[t] = "sleeping" =>
       /\ current_time[t] - last_request_time[lim[t]] < min_delay[lim[t]]
       /\ SleepTime(time_since_last[t], min_delay[lim[t]]) > 0
       /\ SleepTime(time_since_last[t], min_delay[lim[t]]) <= min_delay[lim[t]]

RECURSIVE StampsWritten(_)
StampsWritten(ls) ==
  IF ls = {} THEN 0
  ELSE LET l == CHOOSE x \in ls : TRUE
       IN Len(starts[l]) + StampsWritten(ls \ {l})

BeforeStamp(t) ==
  pc[t] \in {"read_clock", "read_last", "check", "sleeping", "stamp", "store"}

StampedOncePerCall ==
  /\ StampsWritten(Limiters) = ncalls - (IF BeforeStamp(MainThread) THEN 1 ELSE 0)
  /\ \A l \in Limiters :
        last_request_time[l] =
          IF starts[l] = <<>> THEN InitialLastRequestTime ELSE Last(starts[l])

StampIsFreshReading ==
  /\ (pc[MainThread] = "stamp" /\ pc'[MainThread] = "store") =>
       /\ stamp_time'[MainThread] = clock
       /\ clock >= wake_at[MainThread]
  /\ \A l \in Limiters :
       /\ last_request_time'[l] >= last_request_time[l]
       /\ Len(starts'[l]) # Len(starts[l]) =>
            /\ pc[MainThread] = "store" /\ lim[MainThread] = l
            /\ pc'[MainThread] \in {"func", "done"}
            /\ Len(starts'[l]) = Len(starts[l]) + 1
            /\ last_request_time'[l] = stamp_time[MainThread]
            /\ last_request_time'[l] >= current_time[MainThread]
       /\ Len(starts'[l]) = Len(starts[l]) =>
            last_request_time'[l] = last_request_time[l]

C13_StampOnceAfterBlocking == [](StampedOncePerCall) /\ [][StampIsFreshReading]_vars

\* a call that has slept, has read the clock again, now past its entry
\* reading, and is about to store that value
C13_Witness ==
  /\ pc[MainThread] = "store"
  /\ starts[lim[MainThread]] # <<>>
  /\ wake_at[MainThread] > current_time[MainThread]
  /\ stamp_time[MainThread] > current_time[MainThread]
  /\ current_time[MainThread] > last_request_time[lim[MainThread]]

(***************************************************************************)
(* C14: the first wait() on a freshly constructed limiter never sleeps,     *)
(* whatever min_delay and the clock are.                                    *)
(***************************************************************************)
C14_FirstWaitNeverBlocks ==
  \A t \in Threads :
    (pc[t] # "idle" /\ starts[lim[t]] = <<>>) => pc[t] # "sleeping"

(***************************************************************************)
(* C15: with one limiter per caller, a step of one caller's call leaves the *)
(* other limiter's min_delay and last_request_time and the other caller's   *)
(* wake-up time as they were, and whether and how long a call sleeps        *)
(* follows from its own limiter's stamps alone, in every interleaving.      *)
(***************************************************************************)
OwnLastStamp(t) ==
  IF starts[OwnLimiter(t)] = <<>> THEN InitialLastRequestTime
  ELSE Last(starts[OwnLimiter(t)])

BlockingFromOwnHistory ==
  \A t \in Threads :
    /\ last_request_time[OwnLimiter(t)] = OwnLastStamp(t)
    /\ pc[t] \in {"check", "sleeping"} =>
         time_since_last[t] = current_time[t] - OwnLastStamp(t)
    /\ pc[t] = "sleeping" =>
         /\ time_since_last[t] < min_delay[OwnLimiter(t)]
         /\ wake_at[t] <= clock + min_delay[OwnLimiter(t)] - time_since_last[t]

OtherInstanceUntouched ==
  \A t, u \in Threads :
    (t # u /\ pc'[t] # pc[t]) =>
       /\ min_delay' = min_delay
       /\ last_request_time'[OwnLimiter(u)] = last_request_time[OwnLimiter(u)]
       /\ starts'[OwnLimiter(u)] = starts[OwnLimiter(u)]
       /\ wake_at'[u] = wake_at[u]
       /\ pc'[u] = pc[u]

C15_InstancesIndependent == [](BlockingFromOwnHistory) /\ [][OtherInstanceUntouched]_vars

\* one caller sleeps on its limiter while the other has just stamped its own
C15_Witness ==
  \E t, u \in Threads :
    /\ t # u
    /\ pc[t] = "sleeping" /\ lim[t] = OwnLimiter(t)
    /\ pc[u] \in {"func", "done"} /\ lim[u] = OwnLimiter(u)
    /\ Last(starts[OwnLimiter(u)]) > last_request_time[OwnLimiter(t)]
    /\ min_delay[OwnLimiter(u)] < min_delay[OwnLimiter(t)]
    /\ clock < wake_at[t]

(***************************************************************************)
(* C16: wait_for_element and wait_for_clickable return None only when the   *)
(* wait timed out; a poll on a dead session does not count as "not found":  *)
(* its WebDriverException ends the wait and reaches the caller.             *)
(***************************************************************************)
C16_SessionErrorPropagates ==
  sel_fn \in WaitFns =>
    /\ sel_pc = "sleep" => ~SessionDead(mono)
    /\ sel_pc = "done" =>
         /\ (sel_raised = None /\ sel_result = NoneVal) =>
               (mono > end_time /\ sleeps >= 1)
         /\ sel_raised # None =>
               (sel_raised = "WebDriverException" /\ SessionDead(mono))
         /\ (SessionDead(mono) /\ mono <= end_time) =>
               sel_raised = "WebDriverException"

\* the session died between two polls and the second poll's error came out
C16_Witness ==
  /\ sel_fn \in WaitFns
  /\ sel_pc = "done"
  /\ sel_raised = "WebDriverException"
  /\ lookups >= 2
  /\ mono <= end_time

(***************************************************************************)
(* C17: what a returned record shows as rates and raw_data stays what it    *)
(* was when the record was returned, whatever the caller does afterwards    *)
(* to the list and the dict it passed in.                                   *)
(***************************************************************************)
C17_RecordKeepsNothing ==
  \A n \in 1..Len(records) :
    /\ RatesOf(records[n]) = returned[n][records[n].rates]
    /\ records[n].raw_data # None =>
         RawDataOf(records[n]) = ListOf(returned[n][records[n].raw_data])

(***************************************************************************)
(* C18: when the gated operation raises, the caller gets that error, and    *)
(* last_request_time stays at the stamp of the wait() before the failed     *)
(* operation; the caller's next call on that limiter is stamped at least    *)
(* min_delay after it.                                                      *)
(***************************************************************************)
\* the caller's previous call was a gated one on the limiter of the call it is
\* in now, and this call is past its stamp
StampedAfterGatedCall(t) ==
  /\ last_op[t] # NoOp
  /\ lim[t] = last_op[t].lim
  /\ \/ pc[t] \in {"func", "in_op"}
     \/ pc[t] = "done" /\ via[t] = "wait"

FailedOpKeepsSlot(t) ==
  /\ (pc[t] = "done" /\ via[t] = "gate" /\ op_out[t] = "raise") =>
       /\ ret[t] = "raise"
       /\ last_op[t] = [lim |-> lim[t], out |-> "raise", ran |-> last_op[t].ran]
       /\ last_request_time[lim[t]] = Last(starts[lim[t]])
  /\ (pc[t] = "idle" /\ last_op[t].out = "raise") =>
       last_request_time[last_op[t].lim] = Last(starts[last_op[t].lim])
  /\ (StampedAfterGatedCall(t) /\ last_op[t].out = "raise") =>
       /\ Len(starts[lim[t]]) >= 2
       /\ Last(starts[lim[t]]) - starts[lim[t]][Len(starts[lim[t]]) - 1]
            >= min_delay[lim[t]]

OpEndLeavesStamp(t) ==
  (pc[t] = "in_op" /\ pc'[t] = "done") =>
     /\ last_request_time' = last_request_time
     /\ starts' = starts

C18_FailedOpKeepsSlot ==
  [](FailedOpKeepsSlot(MainThread)) /\ [][OpEndLeavesStamp(MainThread)]_vars

\* a gated operation failed at once; the next gated call on the same limiter
\* waited out the full delay measured from the failed call's stamp
C18_Witness ==
  /\ StampedAfterGatedCall(MainThread)
  /\ via[MainThread] = "gate"
  /\ last_op[MainThread].out = "raise"
  /\ ~last_op[MainThread].ran
  /\ min_delay[lim[MainThread]] = MaxDelay
  /\ Last(starts[lim[MainThread]])
       - starts[lim[MainThread]][Len(starts[lim[MainThread]]) - 1] = MaxDelay

(***************************************************************************)
(* C19: the pacing runs from the stamp taken before a gated operation       *)
(* starts, not from its end: when the operation ran for min_delay or more,  *)
(* the caller's next call on that limiter does not sleep, so its operation  *)
(* can start at the very clock value at which the previous one ended.       *)
(***************************************************************************)
PacedFromStart(t) ==
  /\ (pc[t] \in {"in_op", "done"} /\ via[t] = "gate" /\ ret[t] # "ValueError") =>
       /\ last_request_time[lim[t]] = Last(starts[lim[t]])
       /\ last_request_time[lim[t]] <= op_began[t]
  /\ (BeforeStamp(t) /\ last_op[t].ran /\ lim[t] = last_op[t].lim) =>
       /\ pc[t] # "sleeping"
       /\ pc[t] \in {"check", "stamp"} => time_since_last[t] >= min_delay[lim[t]]

C19_PacedFromOperationStart == PacedFromStart(MainThread)

\* the previous operation ran for exactly min_delay > 0; the next operation
\* was entered at the clock value at which it ended
C19_Witness ==
  /\ pc[MainThread] = "in_op"
  /\ StampedAfterGatedCall(MainThread)
  /\ last_op[MainThread].ran
  /\ min_delay[lim[MainThread]] = MaxDelay
  /\ Last(starts[lim[MainThread]])
       = starts[lim[MainThread]][Len(starts[lim[MainThread]]) - 1] + MaxDelay
  /\ op_began[MainThread] = Last(starts[lim[MainThread]])

====
